---- MODULE Spec2Model ----
(***************************************************************************)
(* dpp::task<R> (dpp/coro/task.h): one eagerly started coroutine task, its *)
(* promise (task_promise_base / task_promise<R>), the final awaiter        *)
(* (task_chain_final_awaiter) and one coroutine that owns the task handle  *)
(* and co_awaits it.                                                        *)
(*                                                                         *)
(* Threads.  The task's body first runs on the thread that creates the     *)
(* task (initial_suspend is suspend_never); the owner gets the handle when *)
(* the body suspends or finishes.  A suspended body is resumed by a thread *)
(* of the surrounding reactor, concurrently with the owner.  Every read    *)
(* and write of a promise field is one step, so that the unsynchronised    *)
(* accesses of the code (handle.done(), promise.parent, promise.is_sync)   *)
(* interleave in every order; memory is sequentially consistent.           *)
(*                                                                         *)
(* Undefined behaviour.  Dereferencing the empty std::optional in          *)
(* await_resume yields any value of R or aborts (hardened library); a use  *)
(* of the destroyed coroutine frame sets uaf and either goes on with the   *)
(* stale contents or crashes.                                               *)
(*                                                                         *)
(* Three specifications share the module.  Spec is the one task above with *)
(* its owner, every field access a step.  SpecHandles is a set of task     *)
(* objects over a few coroutines: construction, moves, destruction and     *)
(* await_ready, each call a step.  SpecChain is a chain of nested tasks,   *)
(* each body awaiting the next, on the calling thread and a reactor        *)
(* thread.  The variables of the other two stay at their initial values.   *)
(***************************************************************************)
EXTENDS Integers, Sequences, FiniteSets, TLC

\* ------------------------------------------------------------------ bounds
\* internal co_awaits one task body performs, at most
MaxAwaits == 2
\* times the owner co_awaits the task handle, at most
MaxOwnerAwaits == 2
\* values of R a body can co_return
NumValues == 2
\* exceptions a body can throw
NumErrors == 1

\* task objects (handles) and coroutines of the handle specification
NumHandles == 2
NumComps == 1
\* operations on handles in one run of the handle specification, at most
MaxHandleOps == 4
\* tasks of the chain specification: task i's body awaits task i + 1
NTasks == 3

Values == 1..NumValues
Errors == {<<i>> : i \in 1..NumErrors}

\* promise.value is <<>> (std::nullopt) or <<v>>; promise.exception is <<>> (nullptr)
\* or an element of Errors
NoValue == <<>>
NoError == <<>>
Some(v) == <<v>>
\* nullptr in promise.parent
NoHandle == "nullptr"
\* std::noop_coroutine()
Noop == "noop"
\* the coroutine that co_awaits the task
Caller == "caller"
\* the task objects and the coroutines they can be bound to; 0 is the null
\* coroutine handle
Handles == 1..NumHandles
Comps == 1..NumComps
NullComp == 0
\* the tasks of the chain, outermost first; 0 is the null parent handle
Tasks == 1..NTasks
Awaiters == 1..(NTasks - 1)
NullTask == 0
\* the thread that calls the outermost task, and the reactor's thread
MainThread == "M"
ReactorThread == "R"

VARIABLES
    \* ---- task_promise<R> and the coroutine frame
    parent,        \* promise.parent
    exception,     \* promise.exception
    value,         \* promise.value
    is_sync,       \* promise.is_sync
    mutex,         \* promise.mutex: "free", or the call that holds it
    done,          \* handle.done(): suspended at the final suspend point
    frame,         \* "alive" | "destroyed" (handle.destroy())
    \* ---- the task's body
    bodyPc,        \* "run" | "co_await" | "susp" | "throwing" | "final" |
                   \*   "fa_suspend" | "finished"
    nAwaits,       \* internal co_awaits started
    everSuspended, \* the body has suspended at an internal co_await
    produced,      \* what the body ended with: <<"none">>, <<"value", v>>, <<"error", e>>
    \* ---- the owning coroutine and its calls on the handle
    callerPc,      \* "creating" | "idle" | "ar_lock" | "ar_check" | "ar_unlock"
                   \* | "awaiting" | "resume" | "dead"
    arRet,         \* await_ready: the value of handle.done() it read
    asPc,          \* the thread inside await_suspend: "none" | "lock" | "check"
                   \* | "store" | "unlock"
    asSeen,        \* await_suspend: the value of handle.done() it read
    asRet,         \* await_suspend's return value: "none" | "true" | "false"
    awaitsStarted, \* co_awaits of the handle started by the owner
    results,       \* what each await_resume call produced, in order
    \* ---- the build and the process
    ndebug,        \* assert() compiled out
    crashed,       \* the process was terminated (abort, crash)
    \* ---- history
    resumes,       \* times the final awaiter handed control to Caller
    resumedDone,   \* every such resumption happened with the task done
    locks,         \* acquisitions of promise.mutex
    readyFirst,    \* what the first await_ready returned: "none" | "true" | "false"
    suspendedSync, \* the body suspended at an internal co_await with is_sync true
    parentAtEntry, \* promise.parent when await_suspend took the lock
    doneAtLock,    \* handle.done() when await_suspend took the lock
    regAwait,      \* number of the co_await whose await_suspend returned true with
                   \* the task not yet done (0: none)
    assertFailed,  \* ~task found the coroutine not finished
    uaf,           \* the destroyed frame was used
    \* ---- task objects: construction, moves, destruction (SpecHandles)
    hLive,         \* per task object: "unborn" | "live" | "dead"
    hBound,        \* per task object: task::handle, a coroutine or NullComp
    cState,        \* per coroutine: "unused" | "suspended" | "resumed" |
                   \*   "co_await" | "fa_suspend" | "finished"
    cSync,         \* per coroutine: promise.is_sync
    cDestroyed,    \* per coroutine: calls of handle.destroy() on it
    hCall,         \* the last operation on a task object and its outcome
    hOps,          \* operations on task objects so far
    hLocks,        \* acquisitions of a promise.mutex by those operations
    hArPc,         \* position in a running task::await_ready:
                   \*   "none" | "lock" | "check" | "unlock"
    hArH,          \* the task object that await_ready runs on
    hArRet,        \* handle.done() as read by it
    hUaf,          \* the destroyed frame of a coroutine was used
    \* ---- a chain of nested tasks on two threads (SpecChain), per task
    chParent,      \* promise.parent: the task whose body awaits, or NullTask
    chIsSync,      \* promise.is_sync
    chDone,        \* handle.done()
    chMutex,       \* promise.mutex: "free" or the thread that holds it
    chPc,          \* the body's position
    chThr,         \* the thread the body runs on
    chRet,         \* handle.done() as read by await_ready on the inner task
    chAs,          \* position in await_suspend on the inner task
    chAsThr,       \* the thread that runs that await_suspend
    chSeen,        \* handle.done() as read by that await_suspend
    chResumedBy,   \* the task whose completion resumed the body, or NullTask
    chWasDone,     \* whether the inner task was done when the body was resumed
    chFrame,       \* the coroutine frame: "alive" | "destroyed"
    chUaf          \* a destroyed frame of the chain was used

promiseVars == <<parent, exception, value, is_sync, mutex, done, frame>>
bodyVars    == <<bodyPc, nAwaits, everSuspended, produced>>
callerVars  == <<callerPc, arRet, asPc, asSeen, asRet, awaitsStarted, results>>
buildVars   == <<ndebug, crashed>>
histVars    == <<resumes, resumedDone, locks, readyFirst, suspendedSync, parentAtEntry,
                 doneAtLock, regAwait, assertFailed, uaf>>
handleVars  == <<hLive, hBound, cState, cSync, cDestroyed, hCall, hOps, hLocks, hArPc,
                 hArH, hArRet, hUaf>>
\* the state outside the single task of Spec
chainVars   == <<chParent, chIsSync, chDone, chMutex, chPc, chThr, chRet, chAs, chAsThr,
                 chSeen, chResumedBy, chWasDone, chFrame, chUaf>>
outsideTask == <<handleVars, chainVars>>
vars == <<promiseVars, bodyVars, callerVars, buildVars, histVars, outsideTask>>

\* ------------------------------------------------------- pure parts of the code

\* await_transform: "sets is_sync to false if the awaited object is not ready"
TransformSync(sync, ready) == IF ~ready THEN FALSE ELSE sync

\* task::await_ready, first test: answer true without the lock when is_sync
FastPath(sync) == sync

\* task::await_suspend: "if (handle.done()) return (false); ... return true;"
SuspendDecisionAlways(seenDone) == TRUE
SuspendDecision(seenDone) == ~seenDone

\* task_chain_final_awaiter::await_suspend: parent if present, else noop_coroutine()
FinalTargetNoop(p) == Noop
FinalTarget(p) == IF p # NoHandle THEN p ELSE Noop

\* one result of await_resume
Result(kind, v, wasDone, n) == [kind |-> kind, v |-> v, done |-> wasDone, await |-> n]

\* a step that touches the coroutine frame
Touch == uaf' = (uaf \/ frame = "destroyed")

\* the owner gets the handle back when the body, started by the constructor,
\* suspends or finishes
HandBack(pc) == IF pc = "creating" THEN "idle" ELSE pc

\* one operation on a task object: its kind, the objects it was applied to,
\* what the source was bound to before
\* (was), what the destination was bound to before (over), and how it ended
Call(op, dst, src, was, over, outcome) ==
    [op |-> op, dst |-> dst, src |-> src, was |-> was, over |-> over,
     outcome |-> outcome]
NoCall == Call("none", 0, 0, NullComp, NullComp, "none")

Init ==
    /\ parent = NoHandle
    /\ exception = NoError
    /\ value = NoValue
    /\ is_sync = TRUE
    /\ mutex = "free"
    /\ done = FALSE
    /\ frame = "alive"
    /\ bodyPc = "run"
    /\ nAwaits = 0
    /\ everSuspended = FALSE
    /\ produced = <<"none">>
    /\ callerPc = "creating"
    /\ arRet = FALSE
    /\ asPc = "none"
    /\ asSeen = FALSE
    /\ asRet = "none"
    /\ awaitsStarted = 0
    /\ results = <<>>
    /\ ndebug \in BOOLEAN
    /\ crashed = FALSE
    /\ resumes = 0
    /\ resumedDone = TRUE
    /\ locks = 0
    /\ readyFirst = "none"
    /\ suspendedSync = FALSE
    /\ parentAtEntry = NoHandle
    /\ doneAtLock = FALSE
    /\ regAwait = 0
    /\ assertFailed = FALSE
    /\ uaf = FALSE
    /\ hLive = [h \in Handles |-> "unborn"]
    /\ hBound = [h \in Handles |-> NullComp]
    /\ cState = [c \in Comps |-> "unused"]
    /\ cSync = [c \in Comps |-> TRUE]
    /\ cDestroyed = [c \in Comps |-> 0]
    /\ hCall = NoCall
    /\ hOps = 0
    /\ hLocks = 0
    /\ hArPc = "none"
    /\ hArH = 0
    /\ hArRet = FALSE
    /\ hUaf = FALSE
    /\ chParent = [i \in Tasks |-> NullTask]
    /\ chIsSync = [i \in Tasks |-> TRUE]
    /\ chDone = [i \in Tasks |-> FALSE]
    /\ chMutex = [i \in Tasks |-> "free"]
    /\ chPc = [i \in Tasks |-> "init"]
    /\ chThr = [i \in Tasks |-> MainThread]
    /\ chRet = [i \in Tasks |-> FALSE]
    /\ chAs = [i \in Tasks |-> "none"]
    /\ chAsThr = [i \in Tasks |-> MainThread]
    /\ chSeen = [i \in Tasks |-> FALSE]
    /\ chResumedBy = [i \in Tasks |-> NullTask]
    /\ chWasDone = [i \in Tasks |-> FALSE]
    /\ chFrame = [i \in Tasks |-> "alive"]
    /\ chUaf = FALSE

\* ------------------------------------------------------------ the task's body

\* co_await expr, first half: promise.await_transform(expr) tests the awaiter's
\* await_ready() and clears is_sync if it answers false
BodyAwaitTransform ==
    /\ ~crashed
    /\ bodyPc = "run"
    /\ nAwaits < MaxAwaits
    /\ \E ready \in BOOLEAN : is_sync' = TransformSync(is_sync, ready)
    /\ nAwaits' = nAwaits + 1
    /\ bodyPc' = "co_await"
    /\ Touch
    /\ UNCHANGED <<parent, exception, value, mutex, done, frame, everSuspended, produced,
                   callerVars, buildVars, resumes, resumedDone, locks, readyFirst,
                   suspendedSync, parentAtEntry, doneAtLock, regAwait, assertFailed>>
    /\ UNCHANGED outsideTask

\* co_await expr, second half: the co_await itself tests await_ready() of the
\* awaiter await_transform returned; the body goes on if it answers true and
\* suspends otherwise
BodyCoAwait ==
    /\ ~crashed
    /\ bodyPc = "co_await"
    /\ \E ready \in BOOLEAN :
          IF ready
          THEN /\ bodyPc' = "run"
               /\ UNCHANGED <<everSuspended, suspendedSync, callerPc>>
          ELSE /\ bodyPc' = "susp"
               /\ everSuspended' = TRUE
               /\ suspendedSync' = (suspendedSync \/ is_sync)
               /\ callerPc' = HandBack(callerPc)
    /\ Touch
    /\ UNCHANGED <<promiseVars, nAwaits, produced, arRet, asPc, asSeen, asRet,
                   awaitsStarted, results, buildVars, resumes, resumedDone, locks,
                   readyFirst, parentAtEntry, doneAtLock, regAwait, assertFailed>>
    /\ UNCHANGED outsideTask

\* the awaited operation completes and a reactor thread resumes the body
BodyResume ==
    /\ ~crashed
    /\ bodyPc = "susp"
    /\ bodyPc' = "run"
    /\ Touch
    /\ UNCHANGED <<promiseVars, nAwaits, everSuspended, produced, callerVars, buildVars,
                   resumes, resumedDone, locks, readyFirst, suspendedSync, parentAtEntry,
                   doneAtLock, regAwait, assertFailed>>
    /\ UNCHANGED outsideTask

\* co_return v: task_promise::return_value
BodyReturn ==
    /\ ~crashed
    /\ bodyPc = "run"
    /\ \E v \in Values :
          /\ value' = Some(v)
          /\ produced' = <<"value", v>>
    /\ bodyPc' = "final"
    /\ Touch
    /\ UNCHANGED <<parent, exception, is_sync, mutex, done, frame, nAwaits, everSuspended,
                   callerVars, buildVars, resumes, resumedDone, locks, readyFirst,
                   suspendedSync, parentAtEntry, doneAtLock, regAwait, assertFailed>>
    /\ UNCHANGED outsideTask

\* an exception leaves the body and reaches the handler of the coroutine.
\* A g++ build marks the coroutine as suspended at its final suspend point
\* here, before it calls promise.unhandled_exception(), so handle.done() is
\* true from now on; other builds only do so at the final suspend point
BodyCatch ==
    /\ ~crashed
    /\ bodyPc = "run"
    /\ \E early \in BOOLEAN : done' = early
    /\ bodyPc' = "throwing"
    /\ Touch
    /\ UNCHANGED <<parent, exception, value, is_sync, mutex, frame, nAwaits, everSuspended,
                   produced, callerVars, buildVars, resumes, resumedDone, locks,
                   readyFirst, suspendedSync, parentAtEntry, doneAtLock, regAwait,
                   assertFailed>>
    /\ UNCHANGED outsideTask

\* task_promise_base::unhandled_exception stores the exception
BodyThrow ==
    /\ ~crashed
    /\ bodyPc = "throwing"
    /\ \E e \in Errors :
          /\ exception' = e
          /\ produced' = <<"error", e>>
    /\ bodyPc' = "final"
    /\ Touch
    /\ UNCHANGED <<parent, value, is_sync, mutex, done, frame, nAwaits, everSuspended,
                   callerVars, buildVars, resumes, resumedDone, locks, readyFirst,
                   suspendedSync, parentAtEntry, doneAtLock, regAwait, assertFailed>>
    /\ UNCHANGED outsideTask

\* co_await final_suspend(): task_chain_final_awaiter::await_ready answers false,
\* the coroutine is suspended at its final suspend point and handle.done()
\* becomes true; no lock is taken
FinalSuspend ==
    /\ ~crashed
    /\ bodyPc = "final"
    /\ done' = TRUE
    /\ bodyPc' = "fa_suspend"
    /\ Touch
    /\ UNCHANGED <<parent, exception, value, is_sync, mutex, frame, nAwaits, everSuspended,
                   produced, callerVars, buildVars, resumes, resumedDone, locks,
                   readyFirst, suspendedSync, parentAtEntry, doneAtLock, regAwait,
                   assertFailed>>
    /\ UNCHANGED outsideTask

\* task_chain_final_awaiter::await_suspend: read promise.parent, no lock taken,
\* and hand control to it or to the no-op coroutine
FinalAwaitSuspend ==
    /\ ~crashed
    /\ bodyPc = "fa_suspend"
    /\ bodyPc' = "finished"
    /\ Touch
    /\ IF FinalTarget(parent) = Caller
       THEN /\ callerPc' = "resume"
            /\ resumes' = resumes + 1
            /\ resumedDone' = (resumedDone /\ done)
       ELSE /\ callerPc' = HandBack(callerPc)
            /\ UNCHANGED <<resumes, resumedDone>>
    /\ UNCHANGED <<promiseVars, nAwaits, everSuspended, produced, arRet, asPc, asSeen,
                   asRet, awaitsStarted, results, buildVars, locks, readyFirst,
                   suspendedSync, parentAtEntry, doneAtLock, regAwait, assertFailed>>
    /\ UNCHANGED outsideTask

\* ------------------------------------------------- the owner: co_await task

\* task::await_ready up to the lock: the handle is bound; answer true if is_sync
AwaitReady ==
    /\ ~crashed
    /\ callerPc = "idle"
    /\ awaitsStarted < MaxOwnerAwaits
    /\ awaitsStarted' = awaitsStarted + 1
    /\ readyFirst' = IF FastPath(is_sync) /\ awaitsStarted = 0 THEN "true" ELSE readyFirst
    /\ callerPc' = IF FastPath(is_sync) THEN "resume" ELSE "ar_lock"
    /\ UNCHANGED <<promiseVars, bodyVars, arRet, asPc, asSeen, asRet, results, buildVars,
                   resumes, resumedDone, locks, suspendedSync, parentAtEntry, doneAtLock,
                   regAwait, assertFailed, uaf>>
    /\ UNCHANGED outsideTask

\* task::await_ready: std::lock_guard lock{handle.promise().mutex}
AwaitReadyLock ==
    /\ ~crashed
    /\ callerPc = "ar_lock"
    /\ mutex = "free"
    /\ mutex' = "await_ready"
    /\ locks' = locks + 1
    /\ callerPc' = "ar_check"
    /\ UNCHANGED <<parent, exception, value, is_sync, done, frame, bodyVars, arRet, asPc,
                   asSeen, asRet, awaitsStarted, results, buildVars, resumes, resumedDone,
                   readyFirst, suspendedSync, parentAtEntry, doneAtLock, regAwait,
                   assertFailed, uaf>>
    /\ UNCHANGED outsideTask

\* task::await_ready: return (handle.done()), the read
AwaitReadyCheck ==
    /\ ~crashed
    /\ callerPc = "ar_check"
    /\ arRet' = done
    /\ callerPc' = "ar_unlock"
    /\ UNCHANGED <<promiseVars, bodyVars, asPc, asSeen, asRet, awaitsStarted, results,
                   buildVars, histVars>>
    /\ UNCHANGED outsideTask

\* task::await_ready returns: the lock_guard releases the mutex; on false the
\* co_await suspends the caller and calls await_suspend
AwaitReadyUnlock ==
    /\ ~crashed
    /\ callerPc = "ar_unlock"
    /\ mutex' = "free"
    /\ readyFirst' = IF awaitsStarted = 1 THEN (IF arRet THEN "true" ELSE "false")
                     ELSE readyFirst
    /\ IF arRet
       THEN /\ callerPc' = "resume"
            /\ UNCHANGED asPc
       ELSE /\ callerPc' = "awaiting"
            /\ asPc' = "lock"
    /\ UNCHANGED <<parent, exception, value, is_sync, done, frame, bodyVars, arRet, asSeen,
                   asRet, awaitsStarted, results, buildVars, resumes, resumedDone, locks,
                   suspendedSync, parentAtEntry, doneAtLock, regAwait, assertFailed, uaf>>
    /\ UNCHANGED outsideTask

\* task::await_suspend: std::lock_guard lock{my_promise.mutex}
AwaitSuspendLock ==
    /\ ~crashed
    /\ asPc = "lock"
    /\ mutex = "free"
    /\ mutex' = "await_suspend"
    /\ locks' = locks + 1
    /\ parentAtEntry' = parent
    /\ doneAtLock' = done
    /\ asPc' = "check"
    /\ UNCHANGED <<parent, exception, value, is_sync, done, frame, bodyVars, callerPc,
                   arRet, asSeen, asRet, awaitsStarted, results, buildVars, resumes,
                   resumedDone, readyFirst, suspendedSync, regAwait, assertFailed, uaf>>
    /\ UNCHANGED outsideTask

\* task::await_suspend: if (handle.done()), the read
AwaitSuspendCheck ==
    /\ ~crashed
    /\ asPc = "check"
    /\ asSeen' = done
    /\ asPc' = IF SuspendDecision(done) THEN "store" ELSE "unlock"
    /\ UNCHANGED <<promiseVars, bodyVars, callerPc, arRet, asRet, awaitsStarted, results,
                   buildVars, histVars>>
    /\ UNCHANGED outsideTask

\* task::await_suspend: my_promise.parent = caller
AwaitSuspendStore ==
    /\ ~crashed
    /\ asPc = "store"
    /\ parent' = Caller
    /\ asPc' = "unlock"
    /\ UNCHANGED <<exception, value, is_sync, mutex, done, frame, bodyVars, callerPc,
                   arRet, asSeen, asRet, awaitsStarted, results, buildVars, histVars>>
    /\ UNCHANGED outsideTask

\* task::await_suspend returns: the lock_guard releases the mutex. On false the
\* caller is not suspended and goes on to await_resume; on true it stays
\* suspended (the final awaiter may have resumed it already, on another thread)
AwaitSuspendReturn ==
    /\ ~crashed
    /\ asPc = "unlock"
    /\ mutex' = "free"
    /\ asPc' = "none"
    /\ Touch
    /\ IF SuspendDecision(asSeen)
       THEN /\ asRet' = "true"
            /\ regAwait' = IF ~done THEN awaitsStarted ELSE regAwait
            /\ UNCHANGED callerPc
       ELSE /\ asRet' = "false"
            /\ callerPc' = "resume"
            /\ UNCHANGED regAwait
    /\ UNCHANGED <<parent, exception, value, is_sync, done, frame, bodyVars, arRet, asSeen,
                   awaitsStarted, results, buildVars, resumes, resumedDone, locks,
                   readyFirst, suspendedSync, parentAtEntry, doneAtLock, assertFailed>>
    /\ UNCHANGED outsideTask

\* task::await_resume: rethrow promise.exception if set, else
\* *std::exchange(promise.value, std::nullopt); no lock is taken. With the value
\* slot empty the dereference is undefined: any value of R, or an abort
AwaitResume ==
    /\ ~crashed
    /\ callerPc = "resume"
    /\ callerPc' = "idle"
    /\ IF exception # NoError
       THEN /\ results' = Append(results, Result("rethrow", exception, done, awaitsStarted))
            /\ UNCHANGED <<value, crashed>>
       ELSE IF value # NoValue
       THEN /\ results' = Append(results, Result("value", value, done, awaitsStarted))
            /\ value' = NoValue
            /\ UNCHANGED crashed
       ELSE /\ UNCHANGED value
            /\ \/ \E g \in Values :
                     /\ results' = Append(results, Result("garbage", Some(g), done, awaitsStarted))
                     /\ UNCHANGED crashed
               \/ /\ results' = Append(results, Result("abort", NoValue, done, awaitsStarted))
                  /\ crashed' = TRUE
    /\ UNCHANGED <<parent, exception, is_sync, mutex, done, frame, bodyVars, arRet, asPc,
                   asSeen, asRet, awaitsStarted, ndebug, histVars>>
    /\ UNCHANGED outsideTask

\* task::~task: assert(handle.done()); handle.destroy()
Destroy ==
    /\ ~crashed
    /\ callerPc = "idle"
    /\ IF done \/ ndebug
       THEN /\ frame' = "destroyed"
            /\ callerPc' = "dead"
            /\ assertFailed' = (assertFailed \/ ~done)
            /\ UNCHANGED crashed
       ELSE /\ assertFailed' = TRUE
            /\ crashed' = TRUE
            /\ UNCHANGED <<frame, callerPc>>
    /\ UNCHANGED <<parent, exception, value, is_sync, mutex, done, bodyVars, arRet, asPc,
                   asSeen, asRet, awaitsStarted, results, ndebug, resumes, resumedDone,
                   locks, readyFirst, suspendedSync, parentAtEntry, doneAtLock, regAwait,
                   uaf>>
    /\ UNCHANGED outsideTask

\* a use of the destroyed frame (by the body, the final awaiter or the
\* lock_guard of a returning await_suspend) may also crash the process
Crash ==
    /\ ~crashed
    /\ frame = "destroyed"
    /\ \/ bodyPc \in {"run", "co_await", "susp", "throwing", "final", "fa_suspend"}
       \/ asPc = "unlock"
    /\ crashed' = TRUE
    /\ uaf' = TRUE
    /\ UNCHANGED <<promiseVars, bodyVars, callerVars, ndebug, resumes, resumedDone, locks,
                   readyFirst, suspendedSync, parentAtEntry, doneAtLock, regAwait,
                   assertFailed>>
    /\ UNCHANGED outsideTask

Next ==
    \/ BodyAwaitTransform
    \/ BodyCoAwait
    \/ BodyResume
    \/ BodyReturn
    \/ BodyCatch
    \/ BodyThrow
    \/ FinalSuspend
    \/ FinalAwaitSuspend
    \/ AwaitReady
    \/ AwaitReadyLock
    \/ AwaitReadyCheck
    \/ AwaitReadyUnlock
    \/ AwaitSuspendLock
    \/ AwaitSuspendCheck
    \/ AwaitSuspendStore
    \/ AwaitSuspendReturn
    \/ AwaitResume
    \/ Destroy
    \/ Crash

Spec == Init /\ [][Next]_vars

TypeOK ==
    /\ parent \in {NoHandle, Caller}
    /\ exception \in Errors \cup {NoError}
    /\ value \in {Some(v) : v \in Values} \cup {NoValue}
    /\ is_sync \in BOOLEAN
    /\ mutex \in {"free", "await_ready", "await_suspend"}
    /\ done \in BOOLEAN
    /\ frame \in {"alive", "destroyed"}
    /\ bodyPc \in {"run", "co_await", "susp", "throwing", "final", "fa_suspend",
                    "finished"}
    /\ nAwaits \in 0..MaxAwaits
    /\ callerPc \in {"creating", "idle", "ar_lock", "ar_check", "ar_unlock", "awaiting",
                     "resume", "dead"}
    /\ asPc \in {"none", "lock", "check", "store", "unlock"}
    /\ asRet \in {"none", "true", "false"}
    /\ awaitsStarted \in 0..MaxOwnerAwaits
    /\ Len(results) <= MaxOwnerAwaits
    /\ resumes \in 0..MaxOwnerAwaits
    /\ bodyPc \in {"fa_suspend", "finished"} => done
    /\ done => bodyPc \in {"throwing", "final", "fa_suspend", "finished"}
    /\ (done /\ bodyPc = "final") => exception # NoError

\* ------------------------------------------ task objects and their handles
\* Any number of task objects over a few coroutines: construction by the
\* coroutine call (get_return_object), default and move construction, move
\* assignment and destruction, each call one step, by the one thread that
\* owns the task objects, and task::await_ready with its unlocked read of
\* is_sync, its lock, its read of handle.done() and its return as steps of
\* their own.  A coroutine's body runs at its creation up to its first
\* suspension or its end; a suspended one is resumed by the reactor at any
\* moment and then awaits again (await_transform, co_await) or ends, first
\* reaching its final suspend point and then running its final awaiter.

\* task(task&&): handle(std::exchange(other.handle, nullptr))
MoveConstructed(b, dst, src) == [[b EXCEPT ![src] = NullComp] EXCEPT ![dst] = b[src]]

\* operator=(task&&): handle = std::exchange(other.handle, nullptr)
MoveAssignedCopy(b, dst, src) == [b EXCEPT ![dst] = b[src]]
MoveAssigned(b, dst, src) == [[b EXCEPT ![src] = NullComp] EXCEPT ![dst] = b[src]]

\* task::await_ready: throws on an empty handle, answers true for a
\* synchronous task, handle.done() otherwise
ReadyOutcomeUnchecked(bound, sync, isDone) ==
    IF sync \/ isDone THEN "true" ELSE "false"
ReadyOutcome(bound, sync, isDone) ==
    IF ~bound THEN "invalid_operation"
    ELSE IF sync THEN "true"
    ELSE IF isDone THEN "true" ELSE "false"

\* ~task: nothing for an empty handle; assert(handle.done()) stops a build
\* with assertions, handle.destroy() runs otherwise
DestructOutcome(bound, isDone, nd) ==
    IF ~bound THEN "nothing"
    ELSE IF isDone \/ nd THEN "destroyed" ELSE "assert"

taskOnly == <<promiseVars, bodyVars, callerVars, histVars>>
arVars == <<hArPc, hArH, hArRet>>
\* the coroutine is created and not at its final suspend point
Unfinished(c) == cState[c] \in {"suspended", "resumed", "co_await"}
\* handle.done()
IsDone(c) == cState[c] \in {"fa_suspend", "finished"}
\* the reactor or the body of the coroutine still has a use of the frame ahead
FrameInUse(c) == cState[c] \in {"suspended", "resumed", "co_await", "fa_suspend"}
\* a step of the body of coroutine c uses its frame
HandleTouch(c) == hUaf' = (hUaf \/ cDestroyed[c] > 0)

\* a coroutine function is called: the frame is created, the body runs to
\* its first suspension or to its end (its final awaiter has then run on
\* the calling thread), the caller gets the task; is_sync is what the body's
\* await_transform calls have left
Create(h, c) ==
    /\ ~crashed
    /\ hOps < MaxHandleOps
    /\ hArPc = "none"
    /\ hLive[h] = "unborn"
    /\ cState[c] = "unused"
    /\ \E st \in {"suspended", "finished"}, sync \in BOOLEAN :
          /\ cState' = [cState EXCEPT ![c] = st]
          /\ cSync' = [cSync EXCEPT ![c] = sync]
    /\ hLive' = [hLive EXCEPT ![h] = "live"]
    /\ hBound' = [hBound EXCEPT ![h] = c]
    /\ hCall' = Call("create", h, 0, NullComp, NullComp, "ok")
    /\ hOps' = hOps + 1
    /\ UNCHANGED <<cDestroyed, hLocks, taskOnly, arVars, hUaf, chainVars, buildVars>>

\* task() = default
DefaultConstruct(h) ==
    /\ ~crashed
    /\ hOps < MaxHandleOps
    /\ hArPc = "none"
    /\ hLive[h] = "unborn"
    /\ hLive' = [hLive EXCEPT ![h] = "live"]
    /\ hBound' = [hBound EXCEPT ![h] = NullComp]
    /\ hCall' = Call("default", h, 0, NullComp, NullComp, "ok")
    /\ hOps' = hOps + 1
    /\ UNCHANGED <<cState, cSync, cDestroyed, hLocks, taskOnly, arVars, hUaf, chainVars, buildVars>>

\* task(task &&other)
MoveConstruct(dst, src) ==
    /\ ~crashed
    /\ hOps < MaxHandleOps
    /\ hArPc = "none"
    /\ hLive[dst] = "unborn"
    /\ hLive[src] = "live"
    /\ hLive' = [hLive EXCEPT ![dst] = "live"]
    /\ hBound' = MoveConstructed(hBound, dst, src)
    /\ hCall' = Call("move_construct", dst, src, hBound[src], NullComp, "ok")
    /\ hOps' = hOps + 1
    /\ UNCHANGED <<cState, cSync, cDestroyed, hLocks, taskOnly, arVars, hUaf, chainVars, buildVars>>

\* operator=(task &&other), dst = src included
MoveAssign(dst, src) ==
    /\ ~crashed
    /\ hOps < MaxHandleOps
    /\ hArPc = "none"
    /\ hLive[dst] = "live"
    /\ hLive[src] = "live"
    /\ hBound' = MoveAssigned(hBound, dst, src)
    /\ hCall' = Call("move_assign", dst, src, hBound[src], hBound[dst], "ok")
    /\ hOps' = hOps + 1
    /\ UNCHANGED <<hLive, cState, cSync, cDestroyed, hLocks, taskOnly, arVars, hUaf, chainVars, buildVars>>

\* ~task()
Destruct(h) ==
    /\ ~crashed
    /\ hOps < MaxHandleOps
    /\ hArPc = "none"
    /\ hLive[h] = "live"
    /\ LET c == hBound[h]
           out == DestructOutcome(c # NullComp, c # NullComp /\ IsDone(c),
                                  ndebug)
       IN /\ hCall' = Call("destruct", h, 0, NullComp, c, out)
          /\ IF out = "assert"
             THEN /\ crashed' = TRUE
                  /\ UNCHANGED <<hLive, cDestroyed>>
             ELSE /\ hLive' = [hLive EXCEPT ![h] = "dead"]
                  /\ cDestroyed' = IF out = "destroyed"
                                   THEN [cDestroyed EXCEPT ![c] = @ + 1]
                                   ELSE cDestroyed
                  /\ UNCHANGED crashed
    /\ hOps' = hOps + 1
    /\ UNCHANGED <<hBound, cState, cSync, hLocks, taskOnly, arVars, hUaf,
                   chainVars, ndebug>>

\* task::await_ready() on a task object: the test of the handle and the
\* read of is_sync; it throws, returns true, or goes on to the lock
HandleAwaitReady(h) ==
    /\ ~crashed
    /\ hOps < MaxHandleOps
    /\ hArPc = "none"
    /\ hLive[h] = "live"
    /\ LET c == hBound[h]
           bound == c # NullComp
           sync == bound /\ cSync[c]
       IN IF bound /\ ~sync
          THEN /\ hArPc' = "lock"
               /\ hArH' = h
               /\ UNCHANGED <<hCall, hOps, hArRet>>
          ELSE /\ hCall' = Call("await_ready", h, 0, NullComp, c,
                                ReadyOutcome(bound, sync, FALSE))
               /\ hOps' = hOps + 1
               /\ UNCHANGED arVars
    /\ UNCHANGED <<hLive, hBound, cState, cSync, cDestroyed, hLocks, hUaf, taskOnly, chainVars,
                   buildVars>>

\* std::lock_guard lock{handle.promise().mutex}
HandleReadyLock ==
    /\ ~crashed
    /\ hArPc = "lock"
    /\ hLocks' = hLocks + 1
    /\ hArPc' = "check"
    /\ UNCHANGED <<hLive, hBound, cState, cSync, cDestroyed, hCall, hOps, hArH, hArRet,
                   hUaf, taskOnly, chainVars, buildVars>>

\* handle.done(), read under the lock
HandleReadyCheck ==
    /\ ~crashed
    /\ hArPc = "check"
    /\ hArRet' = IsDone(hBound[hArH])
    /\ hArPc' = "unlock"
    /\ UNCHANGED <<hLive, hBound, cState, cSync, cDestroyed, hCall, hOps, hLocks, hArH,
                   hUaf, taskOnly, chainVars, buildVars>>

\* the lock_guard leaves its scope, await_ready returns what it read
HandleReadyUnlock ==
    /\ ~crashed
    /\ hArPc = "unlock"
    /\ hCall' = Call("await_ready", hArH, 0, NullComp, hBound[hArH],
                     ReadyOutcome(TRUE, FALSE, hArRet))
    /\ hOps' = hOps + 1
    /\ hArPc' = "none"
    /\ UNCHANGED <<hLive, hBound, cState, cSync, cDestroyed, hLocks, hArH, hArRet,
                   hUaf, taskOnly, chainVars, buildVars>>

\* the reactor resumes a suspended coroutine
Resume(c) ==
    /\ ~crashed
    /\ cState[c] = "suspended"
    /\ cState' = [cState EXCEPT ![c] = "resumed"]
    /\ HandleTouch(c)
    /\ UNCHANGED <<hLive, hBound, cSync, cDestroyed, hCall, hOps, hLocks, arVars, taskOnly,
                   chainVars, buildVars>>

\* the resumed body co_awaits again: await_transform
ResumedAwaitTransform(c) ==
    /\ ~crashed
    /\ cState[c] = "resumed"
    /\ \E ready \in BOOLEAN : cSync' = [cSync EXCEPT ![c] = TransformSync(@, ready)]
    /\ cState' = [cState EXCEPT ![c] = "co_await"]
    /\ HandleTouch(c)
    /\ UNCHANGED <<hLive, hBound, cDestroyed, hCall, hOps, hLocks, arVars, taskOnly,
                   chainVars, buildVars>>

\* the co_await itself: the body goes on, or suspends again
ResumedCoAwait(c) ==
    /\ ~crashed
    /\ cState[c] = "co_await"
    /\ \E ready \in BOOLEAN :
          cState' = [cState EXCEPT ![c] = IF ready THEN "resumed" ELSE "suspended"]
    /\ HandleTouch(c)
    /\ UNCHANGED <<hLive, hBound, cSync, cDestroyed, hCall, hOps, hLocks, arVars, taskOnly,
                   chainVars, buildVars>>

\* the resumed body ends and is suspended at its final suspend point:
\* handle.done() is true from here, the final awaiter has still to run
Finish(c) ==
    /\ ~crashed
    /\ cState[c] = "resumed"
    /\ cState' = [cState EXCEPT ![c] = "fa_suspend"]
    /\ HandleTouch(c)
    /\ UNCHANGED <<hLive, hBound, cSync, cDestroyed, hCall, hOps, hLocks, arVars, taskOnly,
                   chainVars, buildVars>>

\* task_chain_final_awaiter::await_suspend reads promise.parent from the
\* frame, the last use of the frame by the coroutine
HandleFinalAwaitSuspend(c) ==
    /\ ~crashed
    /\ cState[c] = "fa_suspend"
    /\ cState' = [cState EXCEPT ![c] = "finished"]
    /\ HandleTouch(c)
    /\ UNCHANGED <<hLive, hBound, cSync, cDestroyed, hCall, hOps, hLocks, arVars, taskOnly,
                   chainVars, buildVars>>

\* a use of the destroyed frame by the reactor or the body may also crash
\* the process
HandleCrash(c) ==
    /\ ~crashed
    /\ cDestroyed[c] > 0
    /\ FrameInUse(c)
    /\ crashed' = TRUE
    /\ hUaf' = TRUE
    /\ UNCHANGED <<hLive, hBound, cState, cSync, cDestroyed, hCall, hOps, hLocks, arVars,
                   taskOnly, chainVars, ndebug>>

NextHandles ==
    \/ \E h \in Handles, c \in Comps : Create(h, c)
    \/ \E h \in Handles : DefaultConstruct(h)
    \/ \E dst \in Handles, src \in Handles : MoveConstruct(dst, src)
    \/ \E dst \in Handles, src \in Handles : MoveAssign(dst, src)
    \/ \E h \in Handles : Destruct(h)
    \/ \E h \in Handles : HandleAwaitReady(h)
    \/ HandleReadyLock
    \/ HandleReadyCheck
    \/ HandleReadyUnlock
    \/ \E c \in Comps : Resume(c)
    \/ \E c \in Comps : ResumedAwaitTransform(c)
    \/ \E c \in Comps : ResumedCoAwait(c)
    \/ \E c \in Comps : Finish(c)
    \/ \E c \in Comps : HandleFinalAwaitSuspend(c)
    \/ \E c \in Comps : HandleCrash(c)

SpecHandles == Init /\ [][NextHandles]_vars

HandlesTypeOK ==
    /\ hLive \in [Handles -> {"unborn", "live", "dead"}]
    /\ hBound \in [Handles -> Comps \cup {NullComp}]
    /\ cState \in [Comps -> {"unused", "suspended", "resumed", "co_await", "fa_suspend",
                              "finished"}]
    /\ cSync \in [Comps -> BOOLEAN]
    /\ cDestroyed \in [Comps -> 0..MaxHandleOps]
    /\ hOps \in 0..MaxHandleOps
    /\ hLocks \in 0..MaxHandleOps
    /\ hArPc \in {"none", "lock", "check", "unlock"}
    /\ hArH \in Handles \cup {0}
    /\ hArRet \in BOOLEAN
    /\ hUaf \in BOOLEAN
    /\ hCall.op \in {"none", "create", "default", "move_construct", "move_assign",
                     "destruct", "await_ready"}

\* ---------------------------------------------------- a chain of nested tasks
\* Task 1 is called on the main thread; the body of task i calls task i + 1
\* and co_awaits it; the body of the last task co_awaits an operation of the
\* reactor.  A suspended last task is resumed on the reactor's thread, and
\* every completion goes on, by symmetric transfer, on the thread it runs on.
\* The task object of an inner task is a temporary of the co_await
\* expression and is destroyed when the expression ends; the caller of task 1
\* keeps its task object.  Results are not followed here.

\* the lock_guard of await_ready / await_suspend leaves its scope
UnlockedNot(m, j) == m
Unlocked(m, j) == [m EXCEPT ![j] = "free"]

\* a step that uses the frame or the promise of task j
ChTouch(j) == chUaf' = (chUaf \/ chFrame[j] = "destroyed")

\* control goes back to the body that called task i, if it still waits for
\* the call to return
Returned(pc, i) ==
    IF i > 1 /\ pc[i - 1] = "called" THEN [pc EXCEPT ![i - 1] = "at"] ELSE pc

\* the coroutine of task i is called, by the main thread or by the body of
\* task i - 1; its body starts at once
ChCall(i) ==
    /\ ~crashed
    /\ chPc[i] = "init"
    /\ IF i = 1 THEN TRUE ELSE chPc[i - 1] = "run"
    /\ chPc' = IF i = 1 THEN [chPc EXCEPT ![i] = "run"]
               ELSE [chPc EXCEPT ![i] = "run", ![i - 1] = "called"]
    /\ UNCHANGED <<chParent, chIsSync, chDone, chMutex, chThr, chRet, chAs, chAsThr,
                   chSeen, chResumedBy, chWasDone, chFrame, chUaf, buildVars, taskOnly,
                   handleVars>>

\* co_await task: await_transform calls await_ready of the inner task
ChAwaitTransform(i) ==
    /\ ~crashed
    /\ chPc[i] = "at"
    /\ IF FastPath(chIsSync[i + 1])
       THEN /\ chIsSync' = [chIsSync EXCEPT ![i] = TransformSync(@, TRUE)]
            /\ chPc' = [chPc EXCEPT ![i] = "ar"]
       ELSE /\ chPc' = [chPc EXCEPT ![i] = "at_lock"]
            /\ UNCHANGED chIsSync
    /\ UNCHANGED <<chParent, chDone, chMutex, chThr, chRet, chAs, chAsThr, chSeen,
                   chResumedBy, chWasDone, chFrame, chUaf, buildVars, taskOnly,
                   handleVars>>

ChTransformLock(i) ==
    /\ ~crashed
    /\ chPc[i] = "at_lock"
    /\ chMutex[i + 1] = "free"
    /\ chMutex' = [chMutex EXCEPT ![i + 1] = chThr[i]]
    /\ chPc' = [chPc EXCEPT ![i] = "at_check"]
    /\ UNCHANGED <<chParent, chIsSync, chDone, chThr, chRet, chAs, chAsThr, chSeen,
                   chResumedBy, chWasDone, chFrame, chUaf, buildVars, taskOnly,
                   handleVars>>

ChTransformCheck(i) ==
    /\ ~crashed
    /\ chPc[i] = "at_check"
    /\ chRet' = [chRet EXCEPT ![i] = chDone[i + 1]]
    /\ chPc' = [chPc EXCEPT ![i] = "at_unlock"]
    /\ UNCHANGED <<chParent, chIsSync, chDone, chMutex, chThr, chAs, chAsThr, chSeen,
                   chResumedBy, chWasDone, chFrame, chUaf, buildVars, taskOnly,
                   handleVars>>

\* the lock_guard leaves its scope, await_ready returns to await_transform
ChTransformUnlock(i) ==
    /\ ~crashed
    /\ chPc[i] = "at_unlock"
    /\ chMutex' = Unlocked(chMutex, i + 1)
    /\ chPc' = [chPc EXCEPT ![i] = "at_set"]
    /\ UNCHANGED <<chParent, chIsSync, chDone, chThr, chRet, chAs, chAsThr, chSeen,
                   chResumedBy, chWasDone, chFrame, chUaf, buildVars, taskOnly,
                   handleVars>>

\* await_transform sets is_sync from what await_ready returned
ChTransformSet(i) ==
    /\ ~crashed
    /\ chPc[i] = "at_set"
    /\ chIsSync' = [chIsSync EXCEPT ![i] = TransformSync(@, chRet[i])]
    /\ chPc' = [chPc EXCEPT ![i] = "ar"]
    /\ UNCHANGED <<chParent, chDone, chMutex, chThr, chRet, chAs, chAsThr, chSeen,
                   chResumedBy, chWasDone, chFrame, chUaf, buildVars, taskOnly,
                   handleVars>>

\* the co_await calls await_ready of the inner task again
ChAwaitReady(i) ==
    /\ ~crashed
    /\ chPc[i] = "ar"
    /\ chPc' = [chPc EXCEPT ![i] = IF FastPath(chIsSync[i + 1]) THEN "resume"
                                   ELSE "ar_lock"]
    /\ UNCHANGED <<chParent, chIsSync, chDone, chMutex, chThr, chRet, chAs, chAsThr,
                   chSeen, chResumedBy, chWasDone, chFrame, chUaf, buildVars, taskOnly,
                   handleVars>>

ChAwaitReadyLock(i) ==
    /\ ~crashed
    /\ chPc[i] = "ar_lock"
    /\ chMutex[i + 1] = "free"
    /\ chMutex' = [chMutex EXCEPT ![i + 1] = chThr[i]]
    /\ chPc' = [chPc EXCEPT ![i] = "ar_check"]
    /\ UNCHANGED <<chParent, chIsSync, chDone, chThr, chRet, chAs, chAsThr, chSeen,
                   chResumedBy, chWasDone, chFrame, chUaf, buildVars, taskOnly,
                   handleVars>>

ChAwaitReadyCheck(i) ==
    /\ ~crashed
    /\ chPc[i] = "ar_check"
    /\ chRet' = [chRet EXCEPT ![i] = chDone[i + 1]]
    /\ chPc' = [chPc EXCEPT ![i] = "ar_unlock"]
    /\ UNCHANGED <<chParent, chIsSync, chDone, chMutex, chThr, chAs, chAsThr, chSeen,
                   chResumedBy, chWasDone, chFrame, chUaf, buildVars, taskOnly,
                   handleVars>>

\* await_ready returns; on false the body is suspended and await_suspend of
\* the inner task is called on the same thread
ChAwaitReadyUnlock(i) ==
    /\ ~crashed
    /\ chPc[i] = "ar_unlock"
    /\ chMutex' = Unlocked(chMutex, i + 1)
    /\ IF chRet[i]
       THEN /\ chPc' = [chPc EXCEPT ![i] = "resume"]
            /\ UNCHANGED <<chAs, chAsThr>>
       ELSE /\ chPc' = [chPc EXCEPT ![i] = "awaiting"]
            /\ chAs' = [chAs EXCEPT ![i] = "lock"]
            /\ chAsThr' = [chAsThr EXCEPT ![i] = chThr[i]]
    /\ UNCHANGED <<chParent, chIsSync, chDone, chThr, chRet, chSeen, chResumedBy,
                   chWasDone, chFrame, chUaf, buildVars, taskOnly, handleVars>>

ChAwaitSuspendLock(i) ==
    /\ ~crashed
    /\ chAs[i] = "lock"
    /\ chMutex[i + 1] = "free"
    /\ chMutex' = [chMutex EXCEPT ![i + 1] = chAsThr[i]]
    /\ chAs' = [chAs EXCEPT ![i] = "check"]
    /\ UNCHANGED <<chParent, chIsSync, chDone, chPc, chThr, chRet, chAsThr, chSeen,
                   chResumedBy, chWasDone, chFrame, chUaf, buildVars, taskOnly,
                   handleVars>>

ChAwaitSuspendCheck(i) ==
    /\ ~crashed
    /\ chAs[i] = "check"
    /\ chSeen' = [chSeen EXCEPT ![i] = chDone[i + 1]]
    /\ chAs' = [chAs EXCEPT ![i] = IF SuspendDecision(chDone[i + 1]) THEN "store"
                                   ELSE "unlock"]
    /\ UNCHANGED <<chParent, chIsSync, chDone, chMutex, chPc, chThr, chRet, chAsThr,
                   chResumedBy, chWasDone, chFrame, chUaf, buildVars, taskOnly,
                   handleVars>>

ChAwaitSuspendStore(i) ==
    /\ ~crashed
    /\ chAs[i] = "store"
    /\ chParent' = [chParent EXCEPT ![i + 1] = i]
    /\ chAs' = [chAs EXCEPT ![i] = "unlock"]
    /\ UNCHANGED <<chIsSync, chDone, chMutex, chPc, chThr, chRet, chAsThr, chSeen,
                   chResumedBy, chWasDone, chFrame, chUaf, buildVars, taskOnly,
                   handleVars>>

\* await_suspend returns: true leaves the body suspended and gives the
\* thread back to the caller of the task, false goes on in the body
ChAwaitSuspendReturn(i) ==
    /\ ~crashed
    /\ chAs[i] = "unlock"
    /\ chMutex' = Unlocked(chMutex, i + 1)
    /\ ChTouch(i + 1)
    /\ chAs' = [chAs EXCEPT ![i] = "none"]
    /\ chPc' = IF SuspendDecision(chSeen[i])
               THEN IF chAsThr[i] = MainThread THEN Returned(chPc, i) ELSE chPc
               ELSE [chPc EXCEPT ![i] = "resume"]
    /\ UNCHANGED <<chParent, chIsSync, chDone, chThr, chRet, chAsThr, chSeen,
                   chResumedBy, chWasDone, chFrame, buildVars, taskOnly, handleVars>>

\* await_resume of the inner task; on an inner task that has no result the
\* dereference of the empty optional goes on with garbage or aborts
ChAwaitResume(i) ==
    /\ ~crashed
    /\ chPc[i] = "resume"
    /\ \/ /\ chPc' = [chPc EXCEPT ![i] = "destroy"]
          /\ UNCHANGED crashed
       \/ /\ ~chDone[i + 1]
          /\ crashed' = TRUE
          /\ UNCHANGED chPc
    /\ UNCHANGED <<chParent, chIsSync, chDone, chMutex, chThr, chRet, chAs, chAsThr,
                   chSeen, chResumedBy, chWasDone, chFrame, chUaf, ndebug, taskOnly,
                   handleVars>>

\* the co_await expression ends: ~task of the inner task object, then the
\* rest of the body up to co_return
ChDestroyInner(i) ==
    /\ ~crashed
    /\ chPc[i] = "destroy"
    /\ IF DestructOutcome(TRUE, chDone[i + 1], ndebug) = "assert"
       THEN /\ crashed' = TRUE
            /\ UNCHANGED <<chPc, chFrame>>
       ELSE /\ chFrame' = [chFrame EXCEPT ![i + 1] = "destroyed"]
            /\ chPc' = [chPc EXCEPT ![i] = "final"]
            /\ UNCHANGED crashed
    /\ UNCHANGED <<chParent, chIsSync, chDone, chMutex, chThr, chRet, chAs, chAsThr,
                   chSeen, chResumedBy, chWasDone, chUaf, ndebug, taskOnly, handleVars>>

\* the last task co_awaits an operation of the reactor: await_transform
ChLeafAwaitTransform ==
    /\ ~crashed
    /\ chPc[NTasks] = "run"
    /\ \E ready \in BOOLEAN :
          chIsSync' = [chIsSync EXCEPT ![NTasks] = TransformSync(@, ready)]
    /\ chPc' = [chPc EXCEPT ![NTasks] = "co_await"]
    /\ UNCHANGED <<chParent, chDone, chMutex, chThr, chRet, chAs, chAsThr, chSeen,
                   chResumedBy, chWasDone, chFrame, chUaf, buildVars, taskOnly,
                   handleVars>>

\* the co_await itself: goes on when ready, else suspends and gives the
\* thread back to the caller of the task
ChLeafCoAwait ==
    /\ ~crashed
    /\ chPc[NTasks] = "co_await"
    /\ \E ready \in BOOLEAN :
          chPc' = IF ready THEN [chPc EXCEPT ![NTasks] = "final"]
                  ELSE Returned([chPc EXCEPT ![NTasks] = "susp"], NTasks)
    /\ UNCHANGED <<chParent, chIsSync, chDone, chMutex, chThr, chRet, chAs, chAsThr,
                   chSeen, chResumedBy, chWasDone, chFrame, chUaf, buildVars, taskOnly,
                   handleVars>>

\* the reactor resumes the last task on its own thread
ChExternalComplete ==
    /\ ~crashed
    /\ chPc[NTasks] = "susp"
    /\ ChTouch(NTasks)
    /\ chThr' = [chThr EXCEPT ![NTasks] = ReactorThread]
    /\ chPc' = [chPc EXCEPT ![NTasks] = "final"]
    /\ UNCHANGED <<chParent, chIsSync, chDone, chMutex, chRet, chAs, chAsThr, chSeen,
                   chResumedBy, chWasDone, chFrame, buildVars, taskOnly, handleVars>>

\* co_return, then the final suspend point: handle.done() is true from here
ChFinalSuspend(i) ==
    /\ ~crashed
    /\ chPc[i] = "final"
    /\ ChTouch(i)
    /\ chDone' = [chDone EXCEPT ![i] = TRUE]
    /\ chPc' = [chPc EXCEPT ![i] = "fa_suspend"]
    /\ UNCHANGED <<chParent, chIsSync, chMutex, chThr, chRet, chAs, chAsThr, chSeen,
                   chResumedBy, chWasDone, chFrame, buildVars, taskOnly, handleVars>>

\* task_chain_final_awaiter::await_suspend: the parent is resumed on this
\* thread, or the thread goes back to whoever called or resumed the body
ChFinalAwaitSuspend(i) ==
    /\ ~crashed
    /\ chPc[i] = "fa_suspend"
    /\ ChTouch(i)
    /\ IF chParent[i] # NullTask
       THEN /\ chPc' = [chPc EXCEPT ![i] = "finished", ![chParent[i]] = "resume"]
            /\ chThr' = [chThr EXCEPT ![chParent[i]] = chThr[i]]
            /\ chResumedBy' = [chResumedBy EXCEPT ![chParent[i]] = i]
            /\ chWasDone' = [chWasDone EXCEPT ![chParent[i]] = chDone[i]]
       ELSE /\ chPc' = IF chThr[i] = MainThread
                       THEN Returned([chPc EXCEPT ![i] = "finished"], i)
                       ELSE [chPc EXCEPT ![i] = "finished"]
            /\ UNCHANGED <<chThr, chResumedBy, chWasDone>>
    /\ UNCHANGED <<chParent, chIsSync, chDone, chMutex, chRet, chAs, chAsThr, chSeen,
                   chFrame, buildVars, taskOnly, handleVars>>

\* a use of the destroyed frame of an inner task (its resumption, its final
\* suspend, its final awaiter, or the lock_guard of a returning
\* await_suspend) may also crash the process
ChCrash(i) ==
    /\ ~crashed
    /\ chFrame[i + 1] = "destroyed"
    /\ \/ chPc[i + 1] \in {"susp", "final", "fa_suspend"}
       \/ chAs[i] = "unlock"
    /\ crashed' = TRUE
    /\ chUaf' = TRUE
    /\ UNCHANGED <<chParent, chIsSync, chDone, chMutex, chPc, chThr, chRet, chAs,
                   chAsThr, chSeen, chResumedBy, chWasDone, chFrame, ndebug, taskOnly,
                   handleVars>>


NextChain ==
    \/ \E i \in Tasks : ChCall(i)
    \/ \E i \in Awaiters : ChAwaitTransform(i)
    \/ \E i \in Awaiters : ChTransformLock(i)
    \/ \E i \in Awaiters : ChTransformCheck(i)
    \/ \E i \in Awaiters : ChTransformUnlock(i)
    \/ \E i \in Awaiters : ChTransformSet(i)
    \/ \E i \in Awaiters : ChAwaitReady(i)
    \/ \E i \in Awaiters : ChAwaitReadyLock(i)
    \/ \E i \in Awaiters : ChAwaitReadyCheck(i)
    \/ \E i \in Awaiters : ChAwaitReadyUnlock(i)
    \/ \E i \in Awaiters : ChAwaitSuspendLock(i)
    \/ \E i \in Awaiters : ChAwaitSuspendCheck(i)
    \/ \E i \in Awaiters : ChAwaitSuspendStore(i)
    \/ \E i \in Awaiters : ChAwaitSuspendReturn(i)
    \/ \E i \in Awaiters : ChAwaitResume(i)
    \/ \E i \in Awaiters : ChDestroyInner(i)
    \/ ChLeafAwaitTransform
    \/ ChLeafCoAwait
    \/ ChExternalComplete
    \/ \E i \in Tasks : ChFinalSuspend(i)
    \/ \E i \in Tasks : ChFinalAwaitSuspend(i)
    \/ \E i \in Awaiters : ChCrash(i)

SpecChain == Init /\ [][NextChain]_vars

ChainTypeOK ==
    /\ chParent \in [Tasks -> Tasks \cup {NullTask}]
    /\ chIsSync \in [Tasks -> BOOLEAN]
    /\ chDone \in [Tasks -> BOOLEAN]
    /\ chMutex \in [Tasks -> {"free", MainThread, ReactorThread}]
    /\ chPc \in [Tasks -> {"init", "run", "called", "at", "at_lock", "at_check",
                           "at_unlock", "at_set", "ar", "ar_lock", "ar_check", "ar_unlock",
                           "awaiting", "resume", "destroy", "co_await", "susp", "final",
                           "fa_suspend", "finished"}]
    /\ chThr \in [Tasks -> {MainThread, ReactorThread}]
    /\ chAs \in [Tasks -> {"none", "lock", "check", "store", "unlock"}]
    /\ chAsThr \in [Tasks -> {MainThread, ReactorThread}]
    /\ chResumedBy \in [Tasks -> Tasks \cup {NullTask}]
    /\ chFrame \in [Tasks -> {"alive", "destroyed"}]
    /\ chUaf \in BOOLEAN

\* ------------------------------------------------------------------ claims

\* the run has stayed within defined behaviour: no use of the destroyed frame,
\* no failed assertion, no crash, no suspension of the body with is_sync true
Clean ==
    /\ ~crashed
    /\ ~uaf
    /\ ~assertFailed
    /\ ~suspendedSync

\* C1: once the task has finished and the waiter's await_suspend has returned,
\* either await_suspend returned false and the task never resumed the caller,
\* or it returned true and the task resumed the caller exactly once
C1_NoMissedNoDoubleResumption ==
    (Clean /\ asRet # "none" /\ bodyPc = "finished")
        => \/ asRet = "false" /\ resumes = 0
           \/ asRet = "true" /\ resumes = 1

\* C2: the completion (done marked, parent not yet read by the final awaiter) is
\* never in progress while the registration is inside its critical section
C2_CompletionExcludesRegistration ==
    ~(mutex = "await_suspend" /\ bodyPc = "fa_suspend")

\* C3: a waiter whose await_suspend returned true before the task was done is
\* resumed by the task at most once and only with the task done, exactly once
\* when the task has finished, and when it runs await_resume the task is done
\* and promise.value or promise.exception holds the body's result
C3_RegisteredWaiterResumedOnce ==
    regAwait # 0 =>
        /\ resumes <= 1
        /\ resumedDone
        /\ (bodyPc = "finished" => resumes = 1)
        /\ (callerPc = "resume" /\ awaitsStarted = regAwait)
              => /\ done
                 /\ \/ produced[1] = "value" /\ value = Some(produced[2])
                    \/ produced[1] = "error" /\ exception = produced[2]

\* the statement of C3 for the first co_await of the handle only; it holds, as
\* it does for every co_await of a task that never suspended with is_sync true
FirstAwaitRegisteredResumedOnce ==
    regAwait = 1 =>
        /\ resumes <= 1
        /\ resumedDone
        /\ (bodyPc = "finished" => resumes = 1)
        /\ (callerPc = "resume" /\ awaitsStarted = regAwait)
              => /\ done
                 /\ \/ produced[1] = "value" /\ value = Some(produced[2])
                    \/ produced[1] = "error" /\ exception = produced[2]

\* C4: the frame is not destroyed, by an owner that awaited the finished task
\* and whose ~task passed its assertion, before the final awaiter has read
\* promise.parent
C4_NoDestroyBeforeFinalAwaiterDone ==
    (frame = "destroyed" /\ ~assertFailed /\ ~suspendedSync /\ Len(results) >= 1
       /\ results[1].kind = "value")
        => bodyPc = "finished"

\* C5: whenever the owner can call await_ready and it would answer true on the
\* is_sync path, the task is done and (nothing extracted yet) its result is there
C5_FastPathOnlyWhenDone ==
    (~crashed /\ callerPc = "idle" /\ FastPath(is_sync))
        => /\ done
           /\ results = <<>> => (value # NoValue \/ exception # NoError)

\* C6: a task whose body finished without ever suspending answers true to the
\* first await_ready, and its first co_await takes promise.mutex zero times
C6_SynchronousTaskTakesNoLock ==
    (~everSuspended /\ bodyPc = "finished" /\ awaitsStarted = 1)
        => /\ locks = 0
           /\ readyFirst # "false"

\* await_resume call i handed its caller a value of R
ReturnedValue(i) == results[i].kind \in {"value", "garbage"}

\* C7: when await_suspend has returned, the mutex is released; it returned false
\* exactly when it saw the task done under the lock, and then promise.parent is
\* what it was on entry; it returned true only for a task not done when the
\* lock was taken, and then promise.parent is the caller. (Once the frame is
\* destroyed the promise variables stand for its last contents.)
C7_AwaitSuspendContract ==
    asRet # "none" =>
        /\ mutex # "await_suspend"
        /\ (asRet = "false") = asSeen
        /\ asRet = "false" => (done /\ parent = parentAtEntry)
        /\ asRet = "true" => (~doneAtLock /\ parent = Caller)

\* C7 witness: await_suspend found the task done, returned false and stored nothing
C7_Witness ==
    /\ asRet = "false"
    /\ asPc = "none"
    /\ done
    /\ parent = NoHandle
    /\ mutex = "free"

\* C8: a second co_await of the handle of a finished task never hands its caller
\* a value
C8_SecondAwaitRejected ==
    \A i \in 1..Len(results) :
        (~suspendedSync /\ results[i].await >= 2) => ~ReturnedValue(i)

\* C9: for a task that finished with a value, the first await_resume returns
\* that value and empties promise.value, and a second await_resume does not
\* return a value
C9_ExtractExactlyOnce ==
    (~suspendedSync /\ produced[1] = "value" /\ Len(results) >= 1)
        => /\ results[1].kind = "value"
           /\ results[1].v = Some(produced[2])
           /\ value = NoValue
           /\ Len(results) >= 2 => ~ReturnedValue(2)

\* C10: for a task whose body ended with an exception, every await_resume
\* rethrows that exception, none returns a value, and promise.value is never set
C10_FailureRethrownVerbatim ==
    (~suspendedSync /\ produced[1] = "error")
        => /\ value = NoValue
           /\ \A i \in 1..Len(results) :
                 /\ results[i].kind = "rethrow"
                 /\ results[i].v = produced[2]

\* the live task objects bound to coroutine c
Owners(c) == {h \in Handles : hLive[h] = "live" /\ hBound[h] = c}

\* C11: a coroutine that is not finished is never discarded (its frame
\* destroyed by ~task, or its handle overwritten by a move assignment)
\* without a reported failure, which stops the process
C11_UnfinishedDiscardReported ==
    \A c \in Comps :
        (Unfinished(c) /\ (cDestroyed[c] > 0 \/ Owners(c) = {})) => crashed

\* the move assignment alone, in a build with assertions
MoveAssignDiscardReported ==
    (~ndebug /\ hCall.op = "move_assign" /\ hCall.over # NullComp
       /\ Unfinished(hCall.over) /\ Owners(hCall.over) = {}) => crashed

\* C12: task::await_ready on an empty task object throws
\* invalid_operation_exception, takes no lock and changes nothing; on a bound
\* task object it never throws it
C12_EmptyHandleRejected ==
    [][ (hOps' # hOps /\ hCall'.op = "await_ready") =>
           IF hBound[hCall'.dst] = NullComp
           THEN /\ hCall'.outcome = "invalid_operation"
                /\ hLocks' = hLocks
                /\ <<hLive, hBound, cState, cSync, cDestroyed, crashed>>'
                      = <<hLive, hBound, cState, cSync, cDestroyed, crashed>>
           ELSE hCall'.outcome \in {"true", "false"}
      ]_vars

\* await_ready has thrown on a moved-from task object, the coroutine being
\* owned by another one
C12_Witness ==
    /\ hCall.op = "await_ready"
    /\ hCall.outcome = "invalid_operation"
    /\ hBound[hCall.dst] = NullComp
    /\ \E g \in Handles : g # hCall.dst /\ hLive[g] = "live" /\ hBound[g] # NullComp
    /\ hLocks = 0

\* no two live task objects are bound to one coroutine
SingleOwner == \A c \in Comps : Cardinality(Owners(c)) <= 1

\* no coroutine frame is destroyed twice
DestroyedOnce == \A c \in Comps : cDestroyed[c] <= 1

\* C13: after any construction, move (self-assignment included) or
\* destruction, no two live task objects are bound to one coroutine, the
\* source of every move is empty, and no frame is destroyed twice
C13_MovesKeepSingleOwner ==
    /\ SingleOwner
    /\ hCall.op \in {"move_construct", "move_assign"} => hBound[hCall.src] = NullComp
    /\ DestroyedOnce

\* C13 amended: the source of every move from another task object is empty
\* and the destination holds what the source held; a self-move-assignment
\* leaves the task object bound as it was
C13_MovesKeepSingleOwnerAmended ==
    /\ SingleOwner
    /\ (hCall.op \in {"move_construct", "move_assign"} /\ hCall.src # hCall.dst)
          => (hBound[hCall.src] = NullComp /\ hBound[hCall.dst] = hCall.was)
    /\ (hCall.op = "move_assign" /\ hCall.src = hCall.dst)
          => hBound[hCall.src] = hCall.was
    /\ DestroyedOnce

\* a bound task object has been move-assigned to another one
C13_Witness ==
    /\ hCall.op = "move_assign"
    /\ hCall.src # hCall.dst
    /\ hCall.was # NullComp
    /\ hBound[hCall.dst] = hCall.was
    /\ hBound[hCall.src] = NullComp
    /\ Cardinality(Owners(hCall.was)) = 1

\* the body of task i is suspended on its inner task for good: await_suspend
\* has returned true, the inner task has run its completion, nobody resumes
Stuck(i) == chPc[i] = "awaiting" /\ chAs[i] = "none" /\ chPc[i + 1] = "finished"

\* C16: in the chain, a body is resumed only by the completion of the task
\* it awaits, and only once that task is done; and no body whose inner task
\* has completed is left suspended
C16_ChainResumedHopByHop ==
    /\ \A i \in Tasks :
          chResumedBy[i] # NullTask => (chResumedBy[i] = i + 1 /\ chWasDone[i])
    /\ chResumedBy[NTasks] = NullTask
    /\ \A i \in Awaiters : ~Stuck(i)

\* the resumptions alone: one hop up, after the inner task is done
OneHopOnly ==
    /\ \A i \in Tasks :
          chResumedBy[i] # NullTask => (chResumedBy[i] = i + 1 /\ chWasDone[i])
    /\ chResumedBy[NTasks] = NullTask

\* the body of task i is between the lock and the unlock of await_ready or
\* await_suspend on its inner task
InAwaitReady(i) == chPc[i] \in {"at_check", "at_unlock", "ar_check", "ar_unlock"}
InAwaitSuspend(i) == chAs[i] \in {"check", "store", "unlock"}
LockWait(i) == chPc[i] \in {"at_lock", "ar_lock"} \/ chAs[i] = "lock"

\* the thread t executes code of a task body, of its await_transform or of
\* its final awaiter: every position of a started body that is neither
\* suspended, nor waiting for a call to return, nor inside await_ready
RunsBody(t) ==
    \E k \in Tasks :
        /\ chThr[k] = t
        /\ chPc[k] \in {"run", "at", "at_set", "ar", "resume", "destroy", "co_await",
                         "final", "fa_suspend"}

\* C17: a promise's mutex is held exactly while the awaiting body is inside
\* await_ready (slow path) or await_suspend on that task, by the thread that
\* runs the call; that thread runs no task body and resumes nothing
\* meanwhile; no thread holds two mutexes; nobody ever waits for a mutex
\* that is held
C17_LockDiscipline ==
    /\ chMutex[1] = "free"
    /\ \A i \in Awaiters :
          /\ chMutex[i + 1] # "free" <=> (InAwaitReady(i) \/ InAwaitSuspend(i))
          /\ InAwaitReady(i) => chMutex[i + 1] = chThr[i]
          /\ InAwaitSuspend(i) => chMutex[i + 1] = chAsThr[i]
          /\ LockWait(i) => chMutex[i + 1] = "free"
    /\ \A j \in Tasks : chMutex[j] # "free" => ~RunsBody(chMutex[j])
    /\ \A j \in Tasks, k \in Tasks :
          (j # k /\ chMutex[j] # "free") => chMutex[k] # chMutex[j]

\* the main thread still holds the mutex of the last task in await_suspend
\* while the awaiting body has been resumed on the reactor's thread
C17_Witness ==
    /\ chAs[NTasks - 1] = "unlock"
    /\ chMutex[NTasks] = MainThread
    /\ chPc[NTasks - 1] = "resume"
    /\ chThr[NTasks - 1] = ReactorThread

\* C18: every coroutine whose frame is not destroyed is owned by exactly one
\* live task object
C18_NoOrphan ==
    \A c \in Comps :
        (cState[c] # "unused" /\ cDestroyed[c] = 0) => Cardinality(Owners(c)) = 1

\* C14: the body, once finished, always suspends at the final suspend point and
\* the task is done from then on; the final awaiter runs once, hands control to
\* promise.parent if it is set and to the no-op coroutine otherwise, and leaves
\* parent, value, exception and is_sync as they were; nothing else resumes the
\* caller on behalf of the task
C14_DispatcherRunsOnce ==
    [][ /\ done => done'
        /\ bodyPc = "finished" => bodyPc' = "finished"
        /\ (bodyPc = "final" /\ bodyPc' # "final") => (bodyPc' = "fa_suspend" /\ done')
        /\ (bodyPc = "fa_suspend" /\ bodyPc' # "fa_suspend")
              => /\ bodyPc' = "finished"
                 /\ <<parent, value, exception, is_sync>>' = <<parent, value, exception, is_sync>>
                 /\ IF parent # NoHandle
                    THEN resumes' = resumes + 1 /\ callerPc' = "resume"
                    ELSE resumes' = resumes
        /\ resumes' # resumes => bodyPc = "fa_suspend"
      ]_vars

\* C14 witness: the final awaiter has run and handed control to the registered
\* parent
C14_Witness ==
    /\ bodyPc = "finished"
    /\ done
    /\ parent = Caller
    /\ resumes = 1
    /\ callerPc = "resume"

\* C15: a body suspended at an internal co_await has is_sync false
C15_SuspendedImpliesNotSync ==
    bodyPc = "susp" => ~is_sync

\* is_sync never goes from false to true, and only await_transform changes it
IsSyncOnlyFalls ==
    [][ /\ is_sync' => is_sync
        /\ is_sync' # is_sync => (bodyPc = "run" /\ bodyPc' = "co_await")
        /\ is_sync' # is_sync => locks' = locks
      ]_vars
====
